---- MODULE Spec2Model ----
(***************************************************************************)
(* Verification model of the WalletConnect session client of omonOmon     *)
(* (package wallet): pairing-URI parsing, ConnectToURI, the pairing        *)
(* handshake, ApproveSession, the HandleRequests dispatch loop, Close and  *)
(* the Wallet.WalletConnect session flow.                                  *)
(*                                                                         *)
(* Strings that the code takes apart (URIs) are sequences of one-character *)
(* strings.  The websocket connection is modelled by what the client can   *)
(* observe of it: frames queued by the relay, a transport failure flag,    *)
(* the local open/closed state and the log of WriteJSON calls.             *)
(***************************************************************************)
EXTENDS Integers, Sequences, FiniteSets, TLC

\* ------------------------------------------------------------------------
\* Bounds of the model
\* ------------------------------------------------------------------------
\* number of frames the relay delivers in one behaviour
MaxMsgs == 2
\* number of Close calls made from the API in one behaviour
MaxCloses == 2

\* ------------------------------------------------------------------------
\* strings.TrimPrefix / strings.SplitN / strings.Split on character sequences
\* ------------------------------------------------------------------------
HasPrefix(s, p) ==
    /\ Len(s) >= Len(p)
    /\ SubSeq(s, 1, Len(p)) = p

TrimPrefix(s, p) ==
    IF HasPrefix(s, p) THEN SubSeq(s, Len(p) + 1, Len(s)) ELSE s

\* index of the first occurrence of character ch in s, 0 when absent
IndexOf(s, ch) ==
    IF \E i \in 1..Len(s) : s[i] = ch
    THEN CHOOSE i \in 1..Len(s) : s[i] = ch /\ \A j \in 1..(i - 1) : s[j] # ch
    ELSE 0

\* strings.Split(s, ch): all the pieces between occurrences of ch
RECURSIVE Split(_, _)
Split(s, ch) ==
    LET i == IndexOf(s, ch)
    IN IF i = 0 THEN <<s>>
       ELSE <<SubSeq(s, 1, i - 1)>> \o Split(SubSeq(s, i + 1, Len(s)), ch)

\* strings.SplitN(s, ch, 2): at most two pieces, cut at the first ch
SplitN2(s, ch) ==
    LET i == IndexOf(s, ch)
    IN IF i = 0 THEN <<s>>
       ELSE <<SubSeq(s, 1, i - 1), SubSeq(s, i + 1, Len(s))>>

WcPrefix == <<"w", "c", ":">>
BridgeKey == <<"b", "r", "i", "d", "g", "e">>
DefaultBridge ==
    <<"w", "s", "s", ":", "/", "/", "b", "r", "i", "d", "g", "e", ".",
      "w", "a", "l", "l", "e", "t", "c", "o", "n", "n", "e", "c", "t", ".",
      "o", "r", "g">>

\* the query map built by the loop over the "&"-separated parameters: the value
\* stored under key k is the one of the last parameter whose key is k, and a
\* key never stored reads as the empty string
RECURSIVE QueryGet(_, _)
QueryGet(params, k) ==
    IF params = <<>> THEN <<>>
    ELSE LET param == params[Len(params)]
             kv == SplitN2(param, "=")
             rest == SubSeq(params, 1, Len(params) - 1)
         IN IF param = <<>> THEN QueryGet(rest, k)
            ELSE IF kv[1] = k
                 THEN (IF Len(kv) = 2 THEN kv[2] ELSE <<>>)
                 ELSE QueryGet(rest, k)

\* the bridge handed back: the default relay when the query has no usable
\* "bridge" value
BridgeOfNoDefault(q) == q

BridgeOf(q) == IF q = <<>> THEN DefaultBridge ELSE q

ParseWalletConnectURILenient(uri0) ==
    LET uri == TrimPrefix(uri0, WcPrefix)
        parts == SplitN2(uri, "?")
        baseParts == Split(parts[1], "@")
        q == IF Len(parts) = 2
             THEN QueryGet(Split(parts[2], "&"), BridgeKey) ELSE <<>>
    IN [bridge |-> BridgeOf(q),
        handshakeTopic |-> baseParts[1],
        key |-> IF Len(baseParts) >= 2 THEN baseParts[2] ELSE <<>>,
        err |-> "nil"]

ParseWalletConnectURI(uri0) ==
    LET uri == TrimPrefix(uri0, WcPrefix)
        parts == SplitN2(uri, "?")
        baseParts == Split(parts[1], "@")
        q == QueryGet(Split(parts[2], "&"), BridgeKey)
        failure == [bridge |-> <<>>, handshakeTopic |-> <<>>, key |-> <<>>]
    IN IF Len(parts) # 2
       THEN failure @@ [err |-> "invalid URI format: missing query parameters"]
       ELSE IF Len(baseParts) # 2
       THEN failure @@ [err |-> "invalid URI format: missing version"]
       ELSE [bridge |-> BridgeOf(q),
             handshakeTopic |-> baseParts[1],
             key |-> baseParts[2],
             err |-> "nil"]

\* ------------------------------------------------------------------------
\* Inputs
\* ------------------------------------------------------------------------
\* pairing identifiers handed to ConnectToURI
UriCustom == <<"w", "c", ":", "t", "@", "1", "?", "b", "r", "i", "d", "g", "e", "=", "x", "&", "k", "=", "9">>
UriDefault == <<"w", "c", ":", "u", "@", "2", "?", "b", "r", "i", "d", "g", "e", "=", "&", "k", "=", "9">>
UriNoQuery == <<"i", "n", "v", "a", "l", "i", "d">>
UriNoVersion == <<"w", "c", ":", "t", "?", "k", "=", "9">>
URIs == {UriCustom, UriDefault, UriNoQuery, UriNoVersion}

\* wallet addresses: byte strings (one byte here, 20 in the code)
Addresses == {<<0>>, <<171>>}

\* common.Address.Hex(): "0x" followed by two hex digits per byte
HexDigits == <<"0", "1", "2", "3", "4", "5", "6", "7", "8", "9", "a", "b", "c", "d", "e", "f">>

RECURSIVE HexOfBytes(_)
HexOfBytes(bs) ==
    IF bs = <<>> THEN <<>>
    ELSE <<HexDigits[(bs[1] \div 16) + 1], HexDigits[(bs[1] % 16) + 1]>>
         \o HexOfBytes(Tail(bs))

Hex(address) == <<"0", "x">> \o HexOfBytes(address)

\* value of a hex digit, -1 for any other character
HexVal(ch) ==
    IF \E i \in 1..Len(HexDigits) : HexDigits[i] = ch
    THEN (CHOOSE i \in 1..Len(HexDigits) : HexDigits[i] = ch) - 1
    ELSE -1

\* hex.DecodeString: the bytes decoded before the first bad or lone digit,
\* and whether all of str was decoded
RECURSIVE DecodeString(_)
DecodeString(str) ==
    IF str = <<>> THEN [bytes |-> <<>>, ok |-> TRUE]
    ELSE IF Len(str) = 1 \/ HexVal(str[1]) < 0 \/ HexVal(str[2]) < 0
    THEN [bytes |-> <<>>, ok |-> FALSE]
    ELSE LET rest == DecodeString(SubSeq(str, 3, Len(str)))
         IN [bytes |-> <<HexVal(str[1]) * 16 + HexVal(str[2])>> \o rest.bytes,
             ok |-> rest.ok]

HexPrefix == <<"0", "x">>

\* crypto.HexToECDSA: the key must be hex of the key's width (one byte here,
\* 32 in the code)
HexToECDSA(key) ==
    LET d == DecodeString(key)
    IN [ok |-> d.ok /\ Len(d.bytes) = 1 /\ d.bytes # <<0>>, key |-> d.bytes]

\* chain ids passed to ApproveSession by an API caller
ChainIds == {1, 5}

\* PeerMeta values; ZeroMeta is the zero value of the struct
ZeroMeta == [name |-> "", url |-> "", description |-> ""]
MetaA == [name |-> "dappA", url |-> "https://a", description |-> "A"]
MetaB == [name |-> "dappB", url |-> "https://b", description |-> "B"]

\* json.Unmarshal(msg.Payload, &request) for the payloads the relay carries:
\* a JSON object fills the fields it names and leaves the others zero, any
\* other JSON value (or no payload at all) is an error
PayloadSR1 == "{peerId:pA,peerMeta:A,chainId:1}"
PayloadSR5 == "{peerId:pB,peerMeta:B,chainId:5}"
PayloadTx == "{to:0x123}"
PayloadData == "{data:0x456}"
PayloadMsg == "{message:Hello}"
PayloadBad == "[1,2"
PayloadTxNonce == "{from:0xab,nonce:zz}"

UnmarshalSessionRequest(payload) ==
    IF payload = PayloadSR1
    THEN [err |-> "nil", PeerId |-> "pA", PeerMeta |-> MetaA, ChainId |-> 1]
    ELSE IF payload = PayloadSR5
    THEN [err |-> "nil", PeerId |-> "pB", PeerMeta |-> MetaB, ChainId |-> 5]
    ELSE IF payload = PayloadBad
    THEN [err |-> "parse", PeerId |-> "", PeerMeta |-> ZeroMeta, ChainId |-> 0]
    ELSE [err |-> "nil", PeerId |-> "", PeerMeta |-> ZeroMeta, ChainId |-> 0]

\* frames the relay may deliver: JSON envelopes, and one frame that does not
\* decode as a JSON envelope (for instance because its payload is cut short);
\* ReadJSON fails on it
Env(type, topic, payload) ==
    [json |-> TRUE, type |-> type, topic |-> topic, payload |-> payload]

Garbage == [json |-> FALSE, type |-> "", topic |-> <<>>, payload |-> ""]

Frames ==
    { Env("pub", <<"t">>, PayloadSR1),
      Env("pub", <<"t">>, PayloadBad),
      Env("sub", <<"t">>, PayloadTx),
      Env("eth_sendTransaction", <<"t">>, PayloadTx),
      Env("eth_sendTransaction", <<"t">>, PayloadTxNonce),
      Env("eth_sign", <<"u">>, PayloadData),
      Env("personal_sign", <<"t">>, PayloadMsg),
      Garbage }

\* ------------------------------------------------------------------------
\* State
\* ------------------------------------------------------------------------
VARIABLES
    client,     \* the WalletClient struct
    inbox,      \* frames delivered by the relay and not yet read
    relayed,    \* number of frames the relay has delivered
    broken,     \* the transport has failed (peer gone, reset)
    sent,       \* WriteJSON calls on the connection, in order, with outcome
    ctxDone,    \* the ctx passed to HandleRequests is cancelled
    rx,         \* the execution context that runs the blocking receives
    received,   \* envelopes read by the dispatch loop, in order
    invoked,    \* handler invocations, in order
    running,    \* invocations whose handler has not returned
    results,    \* what the calls made so far returned
    wc,         \* Wallet.WalletConnect: position, locals, outcome
    calc        \* a pure function under evaluation: its input and results

vars == <<client, inbox, relayed, broken, sent, ctxDone, rx, received,
          invoked, running, results, wc, calc>>

\* the variables of the session
session == <<client, inbox, relayed, broken, sent, ctxDone, rx, received,
             invoked, running, results, wc>>

ZeroClient ==
    [bridge |-> <<>>, key |-> <<>>, clientId |-> "", peerMeta |-> ZeroMeta,
     conn |-> "nil", handshakeTopic |-> <<>>, connected |-> FALSE]

NoFrame == [json |-> FALSE, type |-> "none", topic |-> <<>>, payload |-> ""]

IdleRx ==
    [pc |-> "idle", handlers |-> {}, checked |-> FALSE, sawDone |-> FALSE, readFailed |-> FALSE,
     interrupted |-> FALSE]

NoResults ==
    [connect |-> "none", connectUri |-> <<>>, connectObj |-> ZeroClient,
     connectReturned |-> FALSE,
     hsr |-> "none", request |-> UnmarshalSessionRequest(PayloadBad),
     parseFailed |-> FALSE,
     approve |-> [calls |-> 0, address |-> <<>>, chainId |-> 0, err |-> "none"],
     loop |-> "none", close |-> <<>>]

\* no pure function is under evaluation
NoCalc == [fn |-> "none", in |-> [none |-> TRUE], outs |-> <<>>]

\* no client has been constructed yet and nothing has been called
Idle ==
    /\ client = ZeroClient
    /\ inbox = <<>>
    /\ relayed = 0
    /\ broken = FALSE
    /\ sent = <<>>
    /\ ctxDone = FALSE
    /\ rx = IdleRx
    /\ received = <<>>
    /\ invoked = <<>>
    /\ running = {}
    /\ results = NoResults
    /\ wc \in { [pc |-> pc, address |-> <<0>>, result |-> "none",
                 closed |-> FALSE] : pc \in {"api", "start"} }

Init ==
    /\ Idle
    /\ calc = NoCalc

\* ------------------------------------------------------------------------
\* The connection as the client sees it
\* ------------------------------------------------------------------------
\* outcomes of conn.WriteJSON: a write on a closed connection fails, a write
\* on a failed transport may or may not be noticed, otherwise it succeeds
WriteOutcomes(c, isBroken) ==
    IF c.conn # "open" THEN {FALSE}
    ELSE IF isBroken THEN {TRUE, FALSE}
    ELSE {TRUE}

\* conn.ReadJSON(&msg): fails once the connection was closed locally, returns
\* the next frame when there is one (failing when it is not a JSON envelope),
\* fails when the transport has failed, and blocks otherwise
ReadJSON(c, q, isBroken) ==
    IF c.conn = "closed" THEN [status |-> "err", msg |-> NoFrame]
    ELSE IF q # <<>>
    THEN (IF Head(q).json THEN [status |-> "ok", msg |-> Head(q)]
          ELSE [status |-> "err", msg |-> NoFrame])
    ELSE IF isBroken THEN [status |-> "err", msg |-> NoFrame]
    ELSE [status |-> "blocked", msg |-> NoFrame]

\* a receive that is waiting for the relay: nothing to read, nothing failed
Silent == inbox = <<>> /\ ~broken /\ client.conn = "open"

\* conn.Close() of the underlying network connection: closing a connection
\* that is already closed returns an error
ConnClose(state) ==
    IF state = "open" THEN [conn |-> "closed", err |-> "nil"]
    ELSE [conn |-> state, err |-> "use of closed network connection"]

\* ------------------------------------------------------------------------
\* WalletClient operations
\* ------------------------------------------------------------------------
SubscribeEnvelope(topic) == [topic |-> topic, type |-> "sub"]

\* ConnectToURI as it would be if the error of subscribe were dropped
ConnectToURIUnchecked(uri, dialOk, writeOk) ==
    LET p == ParseWalletConnectURI(uri)
        c0 == [ZeroClient EXCEPT !.bridge = p.bridge, !.key = p.key,
                                 !.handshakeTopic = p.handshakeTopic]
        sub == [env |-> SubscribeEnvelope(p.handshakeTopic), ok |-> writeOk]
    IN IF p.err # "nil"
       THEN [err |-> "failed to parse URI", returned |-> FALSE,
             obj |-> ZeroClient, writes |-> <<>>]
       ELSE IF ~dialOk
       THEN [err |-> "failed to connect to bridge", returned |-> FALSE,
             obj |-> c0, writes |-> <<>>]
       ELSE [err |-> "nil", returned |-> TRUE,
             obj |-> [c0 EXCEPT !.conn = "open", !.connected = TRUE],
             writes |-> <<sub>>]

\* ConnectToURI: the client object it built, whether it was returned, the
\* error, and the WriteJSON calls it made on the new connection
ConnectToURI(uri, dialOk, writeOk) ==
    LET p == ParseWalletConnectURI(uri)
        c0 == [ZeroClient EXCEPT !.bridge = p.bridge, !.key = p.key,
                                 !.handshakeTopic = p.handshakeTopic]
        c1 == [c0 EXCEPT !.conn = "open"]
        sub == [env |-> SubscribeEnvelope(p.handshakeTopic), ok |-> writeOk]
    IN IF p.err # "nil"
       THEN [err |-> "failed to parse URI", returned |-> FALSE,
             obj |-> ZeroClient, writes |-> <<>>]
       ELSE IF ~dialOk
       THEN [err |-> "failed to connect to bridge", returned |-> FALSE,
             obj |-> c0, writes |-> <<>>]
       ELSE IF ~writeOk
       THEN [err |-> "failed to subscribe", returned |-> FALSE,
             obj |-> c1, writes |-> <<sub>>]
       ELSE [err |-> "nil", returned |-> TRUE,
             obj |-> [c1 EXCEPT !.connected = TRUE], writes |-> <<sub>>]

\* ApproveSession as it would be if it published on the bridge's topic
\* instead of the handshake topic
ApproveEnvelopeWrongTopic(c, address, chainId) ==
    [topic |-> c.bridge,
     type |-> "pub",
     payload |-> [approved |-> TRUE,
                  chainId |-> chainId,
                  accounts |-> <<Hex(address)>>,
                  peerId |-> c.clientId,
                  peerMeta |-> [name |-> "omonOmon Wallet",
                                description |-> "Go Console-based Wallet Implementation",
                                icons |-> <<>>]]]

\* the envelope ApproveSession hands to WriteJSON
ApproveEnvelope(c, address, chainId) ==
    [topic |-> c.handshakeTopic,
     type |-> "pub",
     payload |-> [approved |-> TRUE,
                  chainId |-> chainId,
                  accounts |-> <<Hex(address)>>,
                  peerId |-> c.clientId,
                  peerMeta |-> [name |-> "omonOmon Wallet",
                                description |-> "Go Console-based Wallet Implementation",
                                icons |-> <<>>]]]

\* HandleSessionRequest as it would be if it stored the peer metadata before
\* looking at the error of json.Unmarshal
HandleSessionRequestEager(c, rd) ==
    LET request == UnmarshalSessionRequest(rd.msg.payload)
    IN IF rd.status = "err"
       THEN [res |-> "failed to read message", request |-> request, client |-> c]
       ELSE IF rd.msg.type # "pub"
       THEN [res |-> "nil", request |-> request, client |-> c]
       ELSE IF request.err # "nil"
       THEN [res |-> "failed to parse session request", request |-> request,
             client |-> [c EXCEPT !.peerMeta = request.PeerMeta]]
       ELSE [res |-> "request", request |-> request,
             client |-> [c EXCEPT !.peerMeta = request.PeerMeta]]

\* HandleSessionRequest after its ReadJSON returned: the result and the
\* client afterwards
HandleSessionRequest(c, rd) ==
    LET request == UnmarshalSessionRequest(rd.msg.payload)
    IN IF rd.status = "err"
       THEN [res |-> "failed to read message", request |-> request, client |-> c]
       ELSE IF rd.msg.type # "pub"
       THEN [res |-> "nil", request |-> request, client |-> c]
       ELSE IF request.err # "nil"
       THEN [res |-> "failed to parse session request", request |-> request,
             client |-> c]
       ELSE [res |-> "request", request |-> request,
             client |-> [c EXCEPT !.peerMeta = request.PeerMeta]]

\* the switch as it would be with two cases exchanged
HandlerForSwapped(type) ==
    CASE type = "eth_sendTransaction" -> "SendTransaction"
      [] type = "eth_sign" -> "PersonalSign"
      [] type = "personal_sign" -> "Sign"
      [] OTHER -> "none"

\* the switch of HandleRequests: the handler field for a method name
HandlerFor(type) ==
    CASE type = "eth_sendTransaction" -> "SendTransaction"
      [] type = "eth_sign" -> "Sign"
      [] type = "personal_sign" -> "PersonalSign"
      [] OTHER -> "none"

HandlerFields == {"SendTransaction", "Sign", "PersonalSign"}

\* the RequestHandlers values an API caller passes: the non-nil fields
HandlerSets == {HandlerFields, {"SendTransaction", "PersonalSign"}}

\* the switch as it would be with a default case that signs whatever arrives
DispatchDefaultSign(handlers, msg) ==
    LET h == HandlerFor(msg.type)
    IN IF h \in handlers
       THEN [handler |-> h, payload |-> msg.payload]
       ELSE [handler |-> "Sign", payload |-> msg.payload]

\* the handler called for msg, "none" when the method has no case or the
\* handler field is nil; handlers is the set of non-nil fields
Dispatch(handlers, msg) ==
    LET h == HandlerFor(msg.type)
    IN IF h \in handlers
       THEN [handler |-> h, payload |-> msg.payload]
       ELSE [handler |-> "none", payload |-> ""]

\* the loop as it would be without the ctx.Done() case
SelectBranchNoCancel(done) == "default"

\* the select at the top of the loop: ctx.Done() wins when it is ready
SelectBranch(done) == IF done THEN "return nil" ELSE "default"

\* the loop as it would be if handlers were started with `go`
AfterCallAsync(h) == "select"

\* where the loop goes after calling a handler: the call is synchronous, the
\* loop continues when the handler has returned
AfterCall(h) == IF h = "none" THEN "select" ELSE "handler"

\* WalletClient.Close
Close(c) ==
    IF c.conn # "nil"
    THEN [client |-> [c EXCEPT !.conn = ConnClose(c.conn).conn],
          err |-> ConnClose(c.conn).err]
    ELSE [client |-> c, err |-> "nil"]

\* number of WriteJSON calls on one connection in one behaviour
MaxSent == 2

\* ------------------------------------------------------------------------
\* The relay and the transport
\* ------------------------------------------------------------------------
RelaySend ==
    /\ UNCHANGED calc
    /\ client.conn = "open"
    /\ ~broken
    /\ relayed < MaxMsgs
    /\ \E f \in Frames : inbox' = Append(inbox, f)
    /\ relayed' = relayed + 1
    /\ UNCHANGED <<client, broken, sent, ctxDone, rx, received, invoked,
                   running, results, wc>>

TransportFail ==
    /\ UNCHANGED calc
    /\ client.conn = "open"
    /\ ~broken
    /\ broken' = TRUE
    /\ UNCHANGED <<client, inbox, relayed, sent, ctxDone, rx, received,
                   invoked, running, results, wc>>

\* ------------------------------------------------------------------------
\* The receiving context: HandleSessionRequest and HandleRequests
\* ------------------------------------------------------------------------
\* the queue after a ReadJSON that returned: a frame is consumed unless the
\* connection was closed locally
AfterRead(c, q) == IF c.conn # "closed" /\ q # <<>> THEN Tail(q) ELSE q

\* HandleSessionRequest: ReadJSON returns and the function runs to its return
HsrReturn ==
    /\ UNCHANGED calc
    /\ rx.pc = "hsr"
    /\ LET rd == ReadJSON(client, inbox, broken)
           r == HandleSessionRequest(client, rd)
       IN /\ rd.status # "blocked"
          /\ client' = r.client
          /\ inbox' = AfterRead(client, inbox)
          /\ results' = [results EXCEPT
                           !.hsr = r.res,
                           !.request = IF r.res = "request" THEN r.request ELSE @,
                           !.parseFailed = @ \/ r.res = "failed to parse session request"]
          /\ rx' = [rx EXCEPT !.pc = "idle"]
    /\ UNCHANGED <<relayed, broken, sent, ctxDone, received, invoked,
                   running, wc>>

\* HandleRequests: the select at the top of the for loop
LoopSelect ==
    /\ UNCHANGED calc
    /\ rx.pc = "select"
    /\ IF SelectBranch(ctxDone) = "return nil"
       THEN /\ rx' = [rx EXCEPT !.pc = "idle", !.sawDone = ctxDone]
            /\ results' = [results EXCEPT !.loop = "nil"]
       ELSE /\ rx' = [rx EXCEPT !.pc = "read", !.sawDone = ctxDone,
                                !.checked = TRUE]
            /\ UNCHANGED results
    /\ UNCHANGED <<client, inbox, relayed, broken, sent, ctxDone, received,
                   invoked, running, wc>>

\* HandleRequests: ReadJSON returns; on success the switch calls the handler
LoopRead ==
    /\ UNCHANGED calc
    /\ rx.pc = "read"
    /\ LET rd == ReadJSON(client, inbox, broken)
           d == Dispatch(rx.handlers, rd.msg)
       IN /\ rd.status # "blocked"
          /\ inbox' = AfterRead(client, inbox)
          /\ IF rd.status = "err"
             THEN /\ rx' = [rx EXCEPT !.pc = "idle", !.readFailed = TRUE,
                                      !.checked = FALSE]
                  /\ results' = [results EXCEPT !.loop = "failed to read message"]
                  /\ UNCHANGED <<received, invoked, running>>
             ELSE /\ received' = Append(received, rd.msg)
                  /\ rx' = [rx EXCEPT !.pc = AfterCall(d.handler),
                                      !.checked = FALSE]
                  /\ IF d.handler = "none"
                     THEN UNCHANGED <<invoked, running>>
                     ELSE /\ invoked' = Append(invoked,
                                 [handler |-> d.handler, payload |-> d.payload,
                                  idx |-> Len(received) + 1])
                          /\ running' = running \cup {Len(invoked) + 1}
                  /\ UNCHANGED results
    /\ UNCHANGED <<client, relayed, broken, sent, ctxDone, wc>>

\* json.Unmarshal(payload, &request) in the SendTransaction handler of
\* Wallet.WalletConnect: the fields of TransactionRequest the payload names
UnmarshalTransactionRequest(payload) ==
    LET zero == [From |-> <<>>, Nonce |-> "", GasLimit |-> "", Data |-> <<>>]
    IN IF payload = PayloadTxNonce
       THEN [zero EXCEPT !.From = <<"0", "x", "a", "b">>, !.Nonce = "zz"]
              @@ [err |-> "nil"]
       ELSE IF payload = PayloadBad
       THEN zero @@ [err |-> "parse"]
       ELSE zero @@ [err |-> "nil"]

\* hexutil.MustDecodeUint64 accepts "0x" followed by hex digits and panics on
\* anything else
ValidQuantity(str) == str \in {"0x0", "0x1", "0x2a"}

\* strings.EqualFold on the characters of hex strings
UpperToLower ==
    ("A" :> "a") @@ ("B" :> "b") @@ ("C" :> "c") @@ ("D" :> "d")
      @@ ("E" :> "e") @@ ("F" :> "f") @@ ("X" :> "x")

FoldString(str) ==
    [i \in 1..Len(str) |->
       IF str[i] \in DOMAIN UpperToLower THEN UpperToLower[str[i]] ELSE str[i]]

EqualFoldAlways(a, b) == TRUE

EqualFold(a, b) == FoldString(a) = FoldString(b)

\* crypto.PubkeyToAddress of the key's public key: a fixed function of the
\* key that gives different keys different addresses
PubkeyToAddress(key) == <<((key[1] - 1) * 171) % 256>>

\* how the calls on the RPC node end: PendingNonceAt, SuggestGasPrice and
\* SendTransaction.  ethclient.Dial of the constant https URL opens no
\* connection and does not fail.
RpcOutcomes == [nonceOk : BOOLEAN, gasOk : BOOLEAN, sendOk : BOOLEAN]

NoTransaction == [hash |-> <<>>, signed |-> {}, broadcast |-> {},
                  panicked |-> FALSE]

\* Wallet.SendTransactionFromRequest
SendTransactionFromRequest(w, req, rpc) ==
    LET privateKey == HexToECDSA(w.PrivateKey)
        fromAddress == PubkeyToAddress(privateKey.key)
        data == DecodeString(TrimPrefix(req.Data, HexPrefix))
        tx == [from |-> fromAddress, nonce |-> req.Nonce, gas |-> req.GasLimit,
               data |-> data.bytes]
    IN IF ~privateKey.ok
       THEN NoTransaction @@ [err |-> "invalid private key"]
       ELSE IF ~EqualFold(req.From, Hex(fromAddress))
       THEN NoTransaction @@ [err |-> "from address mismatch"]
       ELSE IF req.Nonce # "" /\ ~ValidQuantity(req.Nonce)
       THEN [NoTransaction EXCEPT !.panicked = TRUE] @@ [err |-> "invalid hex string"]
       ELSE IF req.Nonce = "" /\ ~rpc.nonceOk
       THEN NoTransaction @@ [err |-> "failed to get nonce"]
       ELSE IF req.GasLimit # "" /\ ~ValidQuantity(req.GasLimit)
       THEN [NoTransaction EXCEPT !.panicked = TRUE] @@ [err |-> "invalid hex string"]
       ELSE IF ~rpc.gasOk
       THEN NoTransaction @@ [err |-> "failed to suggest gas price"]
       ELSE IF req.Data # <<>> /\ ~data.ok
       THEN NoTransaction @@ [err |-> "invalid data"]
       ELSE IF ~rpc.sendOk
       THEN [NoTransaction EXCEPT !.signed = {tx}]
              @@ [err |-> "failed to send transaction"]
       ELSE [hash |-> <<tx>>, signed |-> {tx}, broadcast |-> {tx},
             panicked |-> FALSE, err |-> "nil"]

\* the keys GenerateWallet may have drawn, and the key of the wallet with a
\* given address: Address is derived from PrivateKey when a wallet is made
WalletKeys == {<<"0", "1">>, <<"0", "2">>}

KeyOf(address) ==
    CHOOSE key \in WalletKeys : PubkeyToAddress(HexToECDSA(key).key) = address

\* how a handler registered by Wallet.WalletConnect ends: "return" (whatever
\* it printed) or "panic"
WcHandlerEnds(handler, payload, address) ==
    IF handler = "SendTransaction"
    THEN LET req == UnmarshalTransactionRequest(payload)
             w == [Address |-> address, PrivateKey |-> KeyOf(address)]
         IN IF req.err # "nil" THEN "return"
            ELSE IF \E rpc \in RpcOutcomes :
                      SendTransactionFromRequest(w, req, rpc).panicked
            THEN "panic"
            ELSE "return"
    ELSE "return"

\* how the handler of invocation i ends: the handlers of an API caller are
\* its own and return
HandlerEnds(i) ==
    IF wc.pc = "loop"
    THEN WcHandlerEnds(invoked[i].handler, invoked[i].payload, wc.address)
    ELSE "return"

\* a handler returns to the loop that called it
HandlerReturn ==
    /\ UNCHANGED calc
    /\ \E i \in running :
         /\ HandlerEnds(i) = "return"
         /\ running' = running \ {i}
    /\ rx' = [rx EXCEPT !.pc = IF rx.pc = "handler" THEN "select" ELSE rx.pc]
    /\ UNCHANGED <<client, inbox, relayed, broken, sent, ctxDone, received,
                   invoked, results, wc>>

\* ------------------------------------------------------------------------
\* A caller using the client's API directly
\* ------------------------------------------------------------------------
ApiConnectToURI ==
    /\ UNCHANGED calc
    /\ wc.pc = "api"
    /\ client.conn = "nil"
    /\ \E uri \in URIs, dialOk \in BOOLEAN, writeOk \in BOOLEAN :
         LET r == ConnectToURI(uri, dialOk, writeOk)
         IN /\ client' = IF r.returned THEN r.obj ELSE client
            /\ sent' = r.writes
            /\ results' = [results EXCEPT !.connect = r.err,
                                          !.connectUri = uri,
                                          !.connectObj = r.obj,
                                          !.connectReturned = r.returned]
    /\ UNCHANGED <<inbox, relayed, broken, ctxDone, rx, received, invoked,
                   running, wc>>

ApiHandleSessionRequest ==
    /\ UNCHANGED calc
    /\ wc.pc = "api"
    /\ client.conn # "nil"
    /\ rx.pc = "idle"
    /\ results.loop = "none"
    /\ rx' = [rx EXCEPT !.pc = "hsr", !.interrupted = FALSE]
    /\ results' = [results EXCEPT !.hsr = "running"]
    /\ UNCHANGED <<client, inbox, relayed, broken, sent, ctxDone, received,
                   invoked, running, wc>>

\* sends and receives on the connection are serialised by the caller: it
\* calls ApproveSession while no receive is in progress
ApiApproveSession ==
    /\ UNCHANGED calc
    /\ wc.pc = "api"
    /\ client.conn # "nil"
    /\ rx.pc = "idle"
    /\ Len(sent) < MaxSent
    /\ \E address \in Addresses, chainId \in ChainIds,
          ok \in WriteOutcomes(client, broken) :
         /\ sent' = Append(sent, [env |-> ApproveEnvelope(client, address, chainId),
                                  ok |-> ok])
         /\ results' = [results EXCEPT !.approve =
                          [calls |-> @.calls + 1, address |-> address,
                           chainId |-> chainId,
                           err |-> IF ok THEN "nil" ELSE "write failed"]]
    /\ UNCHANGED <<client, inbox, relayed, broken, ctxDone, rx, received,
                   invoked, running, wc>>

ApiHandleRequests ==
    /\ UNCHANGED calc
    /\ wc.pc = "api"
    /\ client.conn # "nil"
    /\ rx.pc = "idle"
    /\ results.loop = "none"
    /\ \E handlers \in HandlerSets :
         rx' = [rx EXCEPT !.pc = "select", !.handlers = handlers,
                          !.interrupted = FALSE]
    /\ results' = [results EXCEPT !.loop = "running"]
    /\ UNCHANGED <<client, inbox, relayed, broken, sent, ctxDone, received,
                   invoked, running, wc>>

\* the caller cancels the ctx it passed to HandleRequests
ApiCancel ==
    /\ UNCHANGED calc
    /\ wc.pc = "api"
    /\ results.loop = "running"
    /\ ~ctxDone
    /\ ctxDone' = TRUE
    /\ UNCHANGED <<client, inbox, relayed, broken, sent, rx, received,
                   invoked, running, results, wc>>

\* Close, possibly while the receiving context is blocked in ReadJSON
ApiClose ==
    /\ UNCHANGED calc
    /\ wc.pc = "api"
    /\ Len(results.close) < MaxCloses
    /\ client' = Close(client).client
    /\ results' = [results EXCEPT !.close = Append(@, Close(client).err)]
    /\ rx' = [rx EXCEPT !.interrupted =
                  @ \/ (rx.pc \in {"hsr", "read"} /\ Silent)]
    /\ UNCHANGED <<inbox, relayed, broken, sent, ctxDone, received, invoked,
                   running, wc>>

\* ------------------------------------------------------------------------
\* Wallet.WalletConnect: the session flow
\* ------------------------------------------------------------------------
ToLower(response) == IF response = "Y" THEN "y" ELSE response

Responses == {"y", "Y", "n", ""}

\* a return (or panic) after `defer client.Close()` was registered: the
\* deferred Close runs and the flow ends
WcLeave(pc, result) ==
    /\ client' = Close(client).client
    /\ results' = [results EXCEPT !.close = Append(@, Close(client).err)]
    /\ wc' = [wc EXCEPT !.pc = pc, !.result = result, !.closed = TRUE]

WcConnect ==
    /\ UNCHANGED calc
    /\ wc.pc = "start"
    /\ \E uri \in URIs, dialOk \in BOOLEAN, writeOk \in BOOLEAN,
          address \in Addresses :
         LET r == ConnectToURI(uri, dialOk, writeOk)
         IN /\ sent' = r.writes
            /\ IF r.err # "nil"
               THEN /\ wc' = [wc EXCEPT !.pc = "returned",
                                        !.result = "failed to connect"]
                    /\ results' = [results EXCEPT !.connect = r.err,
                                                  !.connectUri = uri,
                                                  !.connectObj = r.obj,
                                                  !.connectReturned = r.returned]
                    /\ UNCHANGED <<client, rx>>
               ELSE /\ client' = r.obj
                    /\ wc' = [wc EXCEPT !.pc = "hsr", !.address = address]
                    /\ rx' = [rx EXCEPT !.pc = "hsr"]
                    /\ results' = [results EXCEPT !.connect = r.err,
                                                  !.connectUri = uri,
                                                  !.connectObj = r.obj,
                                                  !.connectReturned = r.returned,
                                                  !.hsr = "running"]
    /\ UNCHANGED <<inbox, relayed, broken, ctxDone, received, invoked, running>>

\* what WalletConnect does with the result of HandleSessionRequest: the
\* error check, then the first use of request (request.PeerMeta.Name), which
\* panics when request is nil
AfterSessionRequestUnchecked(hsr) ==
    IF hsr = "nil" THEN "panic" ELSE "prompt"

AfterSessionRequest(hsr) ==
    IF hsr \in {"failed to read message", "failed to parse session request"}
    THEN "return"
    ELSE IF hsr = "nil" THEN "panic"
    ELSE "prompt"

\* HandleSessionRequest has returned
WcRequest ==
    /\ UNCHANGED calc
    /\ wc.pc = "hsr"
    /\ rx.pc = "idle"
    /\ IF AfterSessionRequest(results.hsr) = "return"
       THEN WcLeave("returned", "failed to handle session request")
       ELSE IF AfterSessionRequest(results.hsr) = "panic"
       THEN WcLeave("panicked", "nil pointer dereference")
       ELSE /\ wc' = [wc EXCEPT !.pc = "prompt"]
            /\ UNCHANGED <<client, results>>
    /\ UNCHANGED <<inbox, relayed, broken, sent, ctxDone, rx, received,
                   invoked, running>>

\* the key holder answers the prompt
WcPrompt ==
    /\ UNCHANGED calc
    /\ wc.pc = "prompt"
    /\ \E response \in Responses :
         IF ToLower(response) # "y"
         THEN WcLeave("returned", "connection rejected by user")
         ELSE /\ wc' = [wc EXCEPT !.pc = "approve"]
              /\ UNCHANGED <<client, results>>
    /\ UNCHANGED <<inbox, relayed, broken, sent, ctxDone, rx, received,
                   invoked, running>>

\* ApproveSession(address, request.ChainId), then HandleRequests is entered
\* with the three handlers set and context.Background()
WcApprove ==
    /\ UNCHANGED calc
    /\ wc.pc = "approve"
    /\ \E ok \in WriteOutcomes(client, broken) :
         /\ sent' = Append(sent,
               [env |-> ApproveEnvelope(client, wc.address, results.request.ChainId),
                ok |-> ok])
         /\ IF ~ok
            THEN /\ client' = Close(client).client
                 /\ results' = [results EXCEPT
                                  !.approve = [calls |-> @.calls + 1,
                                               address |-> wc.address,
                                               chainId |-> results.request.ChainId,
                                               err |-> "write failed"],
                                  !.close = Append(@, Close(client).err)]
                 /\ wc' = [wc EXCEPT !.pc = "returned",
                                     !.result = "failed to approve session",
                                     !.closed = TRUE]
                 /\ UNCHANGED rx
            ELSE /\ results' = [results EXCEPT
                                  !.approve = [calls |-> @.calls + 1,
                                               address |-> wc.address,
                                               chainId |-> results.request.ChainId,
                                               err |-> "nil"],
                                  !.loop = "running"]
                 /\ wc' = [wc EXCEPT !.pc = "loop"]
                 /\ rx' = [rx EXCEPT !.pc = "select", !.handlers = HandlerFields]
                 /\ UNCHANGED client
    /\ UNCHANGED <<inbox, relayed, broken, ctxDone, received, invoked, running>>

\* HandleRequests has returned: its result is the flow's result
WcLoopReturn ==
    /\ UNCHANGED calc
    /\ wc.pc = "loop"
    /\ rx.pc = "idle"
    /\ running = {}
    /\ WcLeave("returned", results.loop)
    /\ UNCHANGED <<inbox, relayed, broken, sent, ctxDone, rx, received,
                   invoked, running>>

\* a handler panics: nothing recovers, the deferred Close of WalletConnect
\* runs and the process dies with HandleRequests still on the stack
WcHandlerPanic ==
    /\ UNCHANGED calc
    /\ wc.pc = "loop"
    /\ \E i \in running :
         /\ HandlerEnds(i) = "panic"
         /\ running' = running \ {i}
    /\ rx' = [rx EXCEPT !.pc = "panicked"]
    /\ WcLeave("panicked", "invalid hex string")
    /\ UNCHANGED <<inbox, relayed, broken, sent, ctxDone, received, invoked>>

\* ------------------------------------------------------------------------
\* Specifications
\* ------------------------------------------------------------------------
Next ==
    \/ RelaySend
    \/ TransportFail
    \/ HsrReturn
    \/ LoopSelect
    \/ LoopRead
    \/ HandlerReturn
    \/ ApiConnectToURI
    \/ ApiHandleSessionRequest
    \/ ApiApproveSession
    \/ ApiHandleRequests
    \/ ApiCancel
    \/ ApiClose
    \/ WcConnect
    \/ WcRequest
    \/ WcPrompt
    \/ WcApprove
    \/ WcLoopReturn
    \/ WcHandlerPanic

Spec == Init /\ [][Next]_vars

\* The receiving context is a goroutine: each of its steps is taken once it
\* can be (a blocked ReadJSON is not enabled).  The relay, the transport and
\* the API caller are under no obligation to act.
FairSpec ==
    /\ Spec
    /\ WF_vars(HsrReturn)
    /\ WF_vars(LoopSelect)
    /\ WF_vars(LoopRead)
    /\ WF_vars(HandlerReturn)

\* ------------------------------------------------------------------------
\* Properties
\* ------------------------------------------------------------------------
\* the method of envelope f has a non-nil handler among handlers
Registered(f, handlers) ==
    \/ f.type = "eth_sendTransaction" /\ "SendTransaction" \in handlers
    \/ f.type = "eth_sign" /\ "Sign" \in handlers
    \/ f.type = "personal_sign" /\ "PersonalSign" \in handlers

LoopResults == {"nil", "failed to read message"}

\* C1: every ApproveSession(addr, n) call makes exactly one WriteJSON call on
\* the connection, and the envelope written has the client's handshake topic,
\* type "pub", payload.approved = TRUE, payload.chainId = n and
\* payload.accounts = [hex form of addr].
C1_ApproveWritesOneEnvelope ==
    [][ results'.approve.calls # results.approve.calls =>
          /\ Len(sent') = Len(sent) + 1
          /\ SubSeq(sent', 1, Len(sent)) = sent
          /\ LET env == sent'[Len(sent')].env
             IN /\ env.topic = client.handshakeTopic
                /\ env.type = "pub"
                /\ env.payload.approved = TRUE
                /\ env.payload.chainId = results'.approve.chainId
                /\ env.payload.accounts = <<Hex(results'.approve.address)>> ]_vars

C1_Witness ==
    /\ results.approve.calls >= 1
    /\ results.approve.err = "nil"
    /\ results.approve.address = <<171>>
    /\ sent[Len(sent)].env.payload.accounts = <<(<<"0", "x", "a", "b">>)>>

\* C2: when the dispatch loop reads an envelope whose method has no case in
\* the switch or whose handler is nil, no handler is invoked and the loop goes
\* back to its select without returning; an envelope with a registered method
\* read after such an envelope is dispatched to its handler.
C2_UnregisteredIsSkipped ==
    [][ \A f \in Frames :
          received' = Append(received, f) =>
            IF Registered(f, rx.handlers)
            THEN /\ Len(invoked') = Len(invoked) + 1
                 /\ invoked'[Len(invoked')].idx = Len(received')
            ELSE /\ invoked' = invoked
                 /\ running' = running
                 /\ rx'.pc = "select"
                 /\ results'.loop = "running" ]_vars

C2_Witness ==
    \E i \in 1..Len(received), k \in 1..Len(invoked) :
        /\ ~Registered(received[i], rx.handlers)
        /\ invoked[k].idx > i
        /\ Registered(received[invoked[k].idx], rx.handlers)

\* C3: every envelope read by the dispatch loop whose method is
\* eth_sendTransaction, eth_sign or personal_sign and whose handler is set has
\* exactly one handler invocation, of that method's handler, with the
\* envelope's payload; no other handler is invoked for it.
C3_ExactlyThatHandlerOnce ==
    \A i \in 1..Len(received) :
        Registered(received[i], rx.handlers) =>
            /\ Cardinality({k \in 1..Len(invoked) : invoked[k].idx = i}) = 1
            /\ \A k \in 1..Len(invoked) :
                 invoked[k].idx = i =>
                    /\ invoked[k].payload = received[i].payload
                    /\ invoked[k].handler =
                         (CASE received[i].type = "eth_sendTransaction" -> "SendTransaction"
                            [] received[i].type = "eth_sign" -> "Sign"
                            [] received[i].type = "personal_sign" -> "PersonalSign")

C3_Witness ==
    /\ Len(invoked) = 2
    /\ invoked[1] = [handler |-> "PersonalSign", payload |-> PayloadMsg, idx |-> 1]
    /\ invoked[2] = [handler |-> "Sign", payload |-> PayloadData, idx |-> 2]

\* C4: handlers are invoked in the order their envelopes were read, at most
\* one handler is executing at any moment, and the loop reads the next
\* envelope only when no handler is executing.
C4_InOrderOneAtATime ==
    [][ /\ received' # received => running = {}
        /\ Cardinality(running') <= 1
        /\ \A j, k \in 1..Len(invoked') :
             j < k => invoked'[j].idx < invoked'[k].idx ]_vars

C4_Witness ==
    /\ Len(invoked) >= 2
    /\ running = {2}
    /\ invoked[1].idx = 1
    /\ invoked[2].idx = 2

\* C5: a read happens only after a check of ctx.Done() that found it open;
\* the loop returns nil exactly when a check found ctx cancelled and returns
\* an error exactly when ReadJSON failed, never both; once it has returned no
\* envelope is read and no handler is invoked.
C5_TwoWaysToEnd ==
    [][ /\ (received' # received \/ rx'.readFailed # rx.readFailed) =>
              (rx.checked /\ ~rx.sawDone)
        /\ (results'.loop = "nil") <=> rx'.sawDone
        /\ (results'.loop = "failed to read message") <=> rx'.readFailed
        /\ ~(rx'.sawDone /\ rx'.readFailed)
        /\ results.loop \in LoopResults =>
              (received' = received /\ invoked' = invoked
               /\ results'.loop = results.loop) ]_vars

C5_Witness ==
    /\ results.loop = "nil"
    /\ Len(received) >= 1
    /\ inbox # <<>>

\* the result of the receive the receiving context made last
LastReceiveResult ==
    IF results.loop # "none" THEN results.loop ELSE results.hsr

\* C6: when ctx is cancelled while the dispatch loop is blocked in ReadJSON
\* and the relay stays silent, the loop eventually returns nil.
C6_CancelEndsBlockedWait ==
    (rx.pc = "read" /\ ctxDone /\ Silent) ~> (results.loop = "nil" \/ ~Silent)

\* C7: Close never returns an error: neither on a client without a
\* connection nor when called again after a successful Close.
C7_CloseIdempotent ==
    \A i \in 1..Len(results.close) : results.close[i] = "nil"

\* C8: a receive that was blocked when Close was called returns, and what it
\* returns is not the result a transport failure produces.
C8_CloseIsNotAReadFailure ==
    (rx.interrupted /\ rx.pc = "idle") =>
        LastReceiveResult # "failed to read message"

\* C9: ConnectToURI returns a client, marked connected, only when parsing,
\* dialling and the subscribe write all succeeded, and then the first write
\* on the new connection is the "sub" envelope for the handshake topic parsed
\* from the identifier, made before anything was received; on any failure it
\* returns an error and no client, and the client it built is not marked
\* connected.
C9_SubscribeFirstOrNoClient ==
    [][ /\ (client.conn = "nil" /\ client'.conn = "open") =>
              /\ sent' = << [env |-> [topic |-> ParseWalletConnectURI(results'.connectUri).handshakeTopic,
                                      type |-> "sub"],
                             ok |-> TRUE] >>
              /\ client'.handshakeTopic = sent'[1].env.topic
              /\ inbox' = <<>> /\ received' = <<>> /\ relayed' = 0
        /\ results'.connect \notin {"none", "nil"} =>
              /\ ~results'.connectReturned
              /\ ~results'.connectObj.connected
              /\ client' = ZeroClient
        /\ results'.connect = "nil" =>
              /\ results'.connectReturned
              /\ results'.connectObj.connected
        /\ client'.connected => results'.connect = "nil" ]_vars

C9_Witness ==
    /\ client.connected
    /\ results.connectUri = UriDefault
    /\ sent = << [env |-> [topic |-> <<"u">>, type |-> "sub"], ok |-> TRUE] >>

\* C10: while the client waits for the pairing request, an envelope whose
\* type is not "pub" does not end the wait: HandleSessionRequest never comes
\* back without a request and without an error, and the session flow does
\* not end for want of a request.
C10_NonPubKeepsWaiting ==
    /\ results.hsr # "nil"
    /\ wc.result # "nil pointer dereference"

\* HandleSessionRequest returns in this step, its ReadJSON having read frame f
HsrReads(f) ==
    /\ rx.pc = "hsr"
    /\ rx'.pc = "idle"
    /\ client.conn # "closed"
    /\ inbox # <<>>
    /\ Head(inbox) = f

\* C11: when HandleSessionRequest reads a "pub" envelope whose payload does
\* not parse as a pairing request it returns the parse error and leaves the
\* client as it was; a valid pairing request read by a later call is returned
\* and its peer metadata stored.
C11_ParseFailureLeavesClient ==
    [][ \A f \in Frames :
          (HsrReads(f) /\ f.json /\ f.type = "pub") =>
             IF f.payload = PayloadBad
             THEN /\ results'.hsr = "failed to parse session request"
                  /\ client' = client
             ELSE /\ results'.hsr = "request"
                  /\ results'.request.PeerId = "pA"
                  /\ client' = [client EXCEPT !.peerMeta = MetaA] ]_vars

C11_Witness ==
    /\ results.parseFailed
    /\ results.hsr = "request"
    /\ client.peerMeta = MetaA
    /\ client.connected

\* C12: a "pub" envelope whose topic is not the client's handshake topic is
\* not taken as the pairing request: HandleSessionRequest returns no request
\* for it and the stored peer metadata stays as it was.
C12_OnlyHandshakeTopicAccepted ==
    [][ \A f \in Frames :
          (HsrReads(f) /\ f.json /\ f.type = "pub"
             /\ f.topic # client.handshakeTopic) =>
             /\ results'.hsr # "request"
             /\ client'.peerMeta = client.peerMeta ]_vars

\* the session state of the design, read off the client: its connection,
\* the pairing request received and the approvals written
Approved(snt) ==
    \E i \in 1..Len(snt) : snt[i].env.type = "pub" /\ snt[i].ok

SessionState(c, res, snt) ==
    IF c.conn = "closed" THEN "Closed"
    ELSE IF c.conn = "nil" THEN "Disconnected"
    ELSE IF Approved(snt) THEN "Active"
    ELSE IF res.request.err = "nil" THEN "AwaitingApproval"
    ELSE "Subscribed"

StateRank(st) ==
    CASE st = "Disconnected" -> 0
      [] st = "Connecting" -> 1
      [] st = "Subscribed" -> 2
      [] st = "AwaitingApproval" -> 3
      [] st = "Active" -> 4
      [] st = "Closed" -> 5

\* C13: the session state never moves backwards, an approval is sent only
\* from AwaitingApproval, and once closed the client stays closed and is not
\* marked connected.
C13_StateOnlyMovesForward ==
    [][ LET st == SessionState(client, results, sent)
            stNext == SessionState(client', results', sent')
        IN /\ StateRank(stNext) >= StateRank(st)
           /\ results'.approve.calls # results.approve.calls =>
                 st = "AwaitingApproval"
           /\ stNext = "Closed" => ~client'.connected ]_vars

\* the dispatch loop's ReadJSON returns in this step, having read frame f
LoopReads(f) ==
    /\ rx.pc = "read"
    /\ rx'.pc # "read"
    /\ client.conn # "closed"
    /\ inbox # <<>>
    /\ Head(inbox) = f

\* C14: in the Active state a malformed envelope payload does not end the
\* dispatch loop: the frame that carries it is dropped without a handler
\* invocation and the loop goes on, and no handler brings the loop down over
\* the payload it was given.
C14_MalformedIsNonTerminal ==
    [][ SessionState(client, results, sent) = "Active" =>
          /\ LoopReads(Garbage) =>
                /\ results'.loop = "running"
                /\ rx'.pc = "select"
                /\ invoked' = invoked
          /\ rx.pc = "handler" => rx'.pc # "panicked" ]_vars

\* ------------------------------------------------------------------------
\* ParseWalletConnectURI on its own: identifiers put together from their parts
\* ------------------------------------------------------------------------
\* number of "&"-separated parameters in the query of an identifier
MaxParams == 2

\* what may stand in front of the topic: the protocol prefix, nothing, or
\* another scheme
Prefixes == {WcPrefix, <<>>, <<"x", "y", ":">>}
Topics == {<<>>, <<"t">>, <<"t", "u">>}
\* the "@"-introduced segments after the topic: none, one (possibly empty), two
VersionLists == {<<>>, << <<"1">> >>, << <<>> >>, << <<"1">>, <<"2">> >>}

\* one query parameter: key, whether an "=" follows, and the value
QueryParams ==
    { [k |-> BridgeKey, eq |-> TRUE, v |-> <<"x">>],
      [k |-> BridgeKey, eq |-> TRUE, v |-> <<"x", "=", "y">>],
      [k |-> BridgeKey, eq |-> TRUE, v |-> <<>>],
      [k |-> BridgeKey, eq |-> FALSE, v |-> <<>>],
      [k |-> <<"k">>, eq |-> TRUE, v |-> <<"9">>],
      [k |-> BridgeKey \o <<"s">>, eq |-> TRUE, v |-> <<"y">>],
      [k |-> <<>>, eq |-> FALSE, v |-> <<>>] }

ParamLists == UNION { [1..n -> QueryParams] : n \in 0..MaxParams }

Queries ==
    { [present |-> FALSE, params |-> <<>>] }
      \cup { [present |-> TRUE, params |-> ps] : ps \in ParamLists }

Identifiers ==
    [prefix : Prefixes, topic : Topics, versions : VersionLists,
     query : Queries]

ParamText(param) ==
    param.k \o (IF param.eq THEN <<"=">> \o param.v ELSE <<>>)

RECURSIVE JoinParams(_)
JoinParams(ps) ==
    IF ps = <<>> THEN <<>>
    ELSE IF Len(ps) = 1 THEN ParamText(ps[1])
    ELSE ParamText(ps[1]) \o <<"&">> \o JoinParams(Tail(ps))

RECURSIVE VersionText(_)
VersionText(vs) ==
    IF vs = <<>> THEN <<>>
    ELSE <<"@">> \o vs[1] \o VersionText(Tail(vs))

\* the identifier as the string handed to ParseWalletConnectURI
UriText(id) ==
    id.prefix \o id.topic \o VersionText(id.versions)
      \o (IF id.query.present THEN <<"?">> \o JoinParams(id.query.params)
          ELSE <<>>)

ParseInit ==
    /\ Idle
    /\ wc.pc = "api"
    /\ \E id \in Identifiers : calc = [fn |-> "parse", in |-> id, outs |-> <<>>]

\* one call of ParseWalletConnectURI on the identifier
ParseCall ==
    /\ calc.fn = "parse"
    /\ calc.outs = <<>>
    /\ calc' = [calc EXCEPT !.outs = <<ParseWalletConnectURI(UriText(calc.in))>>]
    /\ UNCHANGED session

ParseNext == ParseCall

ParseSpec == ParseInit /\ [][ParseNext]_vars

\* the call on the identifier has returned
Parsed == calc.fn = "parse" /\ calc.outs # <<>>

InvalidURIFormat ==
    {"invalid URI format: missing query parameters",
     "invalid URI format: missing version"}

\* what precedes the "@" once a leading "wc:" is taken off
TopicOf(id) == (IF id.prefix = WcPrefix THEN <<>> ELSE id.prefix) \o id.topic

\* the parameters of the identifier's query whose key is "bridge"
BridgeParams(id) ==
    { i \in 1..Len(id.query.params) : id.query.params[i].k = BridgeKey }

\* C15: when an identifier prefix:topic@version?query parses, the topic
\* returned is the text before the "@" (the leading "wc:" taken off), the
\* version is the text between "@" and "?", and the bridge is the value of
\* the query's bridge parameter, verbatim, when that parameter has a
\* non-empty value, and the default relay wss://bridge.walletconnect.org when
\* the key is absent, bare or empty; no other parameter changes the result.
C15_ParsedParts ==
    (Parsed /\ calc.outs[1].err = "nil") =>
        LET id == calc.in
            out == calc.outs[1]
            bs == BridgeParams(id)
        IN /\ out.handshakeTopic = TopicOf(id)
           /\ Len(id.versions) = 1
           /\ out.key = id.versions[1]
           /\ bs = {} => out.bridge = DefaultBridge
           /\ \A i \in bs :
                bs = {i} =>
                  out.bridge = IF id.query.params[i].eq
                                  /\ id.query.params[i].v # <<>>
                               THEN id.query.params[i].v
                               ELSE DefaultBridge

\* an identifier with a verbatim bridge value next to another parameter, parsed
C15_Witness ==
    /\ Parsed
    /\ calc.in.prefix = WcPrefix
    /\ calc.in.topic = <<"t", "u">>
    /\ Len(calc.in.query.params) = 2
    /\ calc.in.query.params[1].k = <<"k">>
    /\ calc.in.query.params[2].v = <<"x", "=", "y">>
    /\ calc.outs[1].err = "nil"
    /\ calc.outs[1].bridge = <<"x", "=", "y">>

\* C16: an identifier without "?" or whose base part has no "@version" is
\* rejected with an invalid-URI-format error and yields no bridge, topic or
\* version.
C16_RejectsMissingParts ==
    (Parsed /\ (~calc.in.query.present \/ calc.in.versions = <<>>)) =>
        /\ calc.outs[1].err \in InvalidURIFormat
        /\ calc.outs[1].bridge = <<>>
        /\ calc.outs[1].handshakeTopic = <<>>
        /\ calc.outs[1].key = <<>>

\* an identifier with a query but no "@version", parsed
C16_Witness ==
    /\ Parsed
    /\ calc.in.query.present
    /\ calc.in.versions = <<>>
    /\ calc.in.topic = <<"t">>
    /\ calc.outs[1].err = "invalid URI format: missing version"

\* C17: an identifier whose topic is empty, such as wc:@1?bridge=x, is
\* rejected with an invalid-URI error.
C17_EmptyTopicRejected ==
    (Parsed /\ TopicOf(calc.in) = <<>>) => calc.outs[1].err \in InvalidURIFormat

\* ------------------------------------------------------------------------
\* encodeType on its own: the EIP-712 type string of a type of a TypeSet
\* ------------------------------------------------------------------------
\* number of fields in one TypeSet, all its struct types together
MaxFields == 3
\* number of encodeType calls made on one TypeSet
MaxCalls == 2

\* names are character sequences; the characters in byte order
Alphabet == <<"A", "B", "C", "i", "n", "t", "u">>
Ord(ch) == CHOOSE i \in 1..Len(Alphabet) : Alphabet[i] = ch

\* a < b as Go compares strings
RECURSIVE Less(_, _)
Less(a, b) ==
    IF b = <<>> THEN FALSE
    ELSE IF a = <<>> THEN TRUE
    ELSE IF Ord(a[1]) # Ord(b[1]) THEN Ord(a[1]) < Ord(b[1])
    ELSE Less(Tail(a), Tail(b))

RECURSIVE Insert(_, _)
Insert(sorted, x) ==
    IF sorted = <<>> THEN <<x>>
    ELSE IF Less(x, sorted[1]) THEN <<x>> \o sorted
    ELSE <<sorted[1]>> \o Insert(Tail(sorted), x)

RECURSIVE InsertAll(_, _)
InsertAll(sorted, xs) ==
    IF xs = <<>> THEN sorted ELSE InsertAll(Insert(sorted, xs[1]), Tail(xs))

\* sort.Strings(deps)
SortStringsSkipped(deps) == deps

SortStrings(deps) == InsertAll(<<>>, deps)

\* the struct types a TypeSet may define, and the types a field may have
TypeNames == {<<"A">>, <<"B">>, <<"C">>}
Uint == <<"u", "i", "n", "t">>
FieldTypes == TypeNames \cup {Uint}
FieldName(i) == [j \in 1..i |-> "x"]

\* the struct names in some fixed order, to lay the TypeSets out
NameOrder == <<<<"A">>, <<"B">>, <<"C">>>>

\* how many fields each struct type has; -1 for a name the TypeSet lacks
FieldCount(shape, n) == IF shape[n] > 0 THEN shape[n] ELSE 0

RECURSIVE CountBefore(_, _)
CountBefore(shape, k) ==
    IF k = 0 THEN 0
    ELSE FieldCount(shape, NameOrder[k]) + CountBefore(shape, k - 1)

Shapes ==
    { shape \in [TypeNames -> -1..MaxFields] :
        CountBefore(shape, Len(NameOrder)) <= MaxFields }

Position(n) == CHOOSE k \in 1..Len(NameOrder) : NameOrder[k] = n

\* the TypeSet of a shape whose fields, struct after struct, have types fts
TypeSetOf(shape, fts) ==
    [n \in { m \in TypeNames : shape[m] >= 0 } |->
       [i \in 1..shape[n] |->
          [Type |-> fts[CountBefore(shape, Position(n) - 1) + i],
           Name |-> FieldName(i)]]]

\* map[string][]TypedDataType
TypeSets ==
    UNION { { TypeSetOf(shape, fts) :
                fts \in [1..CountBefore(shape, Len(NameOrder)) -> FieldTypes] } :
            shape \in Shapes }

\* the orders in which a range over a Go map may hand out its keys
RECURSIVE Perms(_)
Perms(S) ==
    IF S = {} THEN {<<>>}
    ELSE UNION { { <<x>> \o p : p \in Perms(S \ {x}) } : x \in S }

MapOrders == Perms(TypeNames)

\* types[name]: nil for a name that is not a key
FieldsOf(types, name) == IF name \in DOMAIN types THEN types[name] ELSE <<>>

\* the loop over the fields of one queued type: custom field types not seen
\* before are marked and queued
RECURSIVE ScanFields(_, _, _)
ScanFields(fields, types, st) ==
    IF fields = <<>> THEN st
    ELSE LET t == fields[1].Type
             st1 == IF t \in DOMAIN types /\ t \notin st.deps
                    THEN [deps |-> st.deps \cup {t}, queue |-> Append(st.queue, t)]
                    ELSE st
         IN ScanFields(Tail(fields), types, st1)

RECURSIVE ScanQueue(_, _, _)
ScanQueue(i, types, st) ==
    IF i > Len(st.queue) THEN st.deps
    ELSE ScanQueue(i + 1, types, ScanFields(FieldsOf(types, st.queue[i]), types, st))

\* findTypeDependencies: the custom types reachable from typeName, handed back
\* in the order the range over the deps map yields them
findTypeDependencies(typeName, types, order) ==
    LET deps == ScanQueue(1, types, [deps |-> {}, queue |-> <<typeName>>])
    IN SelectSeq(order, LAMBDA n : n \in deps)

RECURSIVE FieldsText(_, _)
FieldsText(fields, i) ==
    IF i > Len(fields) THEN <<>>
    ELSE (IF i > 1 THEN <<",">> ELSE <<>>)
         \o fields[i].Type \o <<" ">> \o fields[i].Name
         \o FieldsText(fields, i + 1)

\* typeName(type name,type name,...)
Signature(typeName, types) ==
    typeName \o <<"(">> \o FieldsText(FieldsOf(types, typeName), 1) \o <<")">>

\* what a type that is already being encoded gives at a nested occurrence
InProgressEchoes(typeName, types) == Signature(typeName, types)

InProgress(typeName, types) == <<>>

RECURSIVE encodeTypeWithContext(_, _, _, _)
RECURSIVE EncodeDeps(_, _, _, _, _)

\* the loop over the sorted dependencies of typeName
EncodeDeps(deps, typeName, types, processing, order) ==
    IF deps = <<>> THEN <<>>
    ELSE (IF deps[1] # typeName
          THEN encodeTypeWithContext(deps[1], types, processing, order)
          ELSE <<>>)
         \o EncodeDeps(Tail(deps), typeName, types, processing, order)

\* processing is the set of types marked in the processing map; the mark of
\* typeName is taken off again when its call returns
encodeTypeWithContext(typeName, types, processing, order) ==
    IF typeName \in processing THEN InProgress(typeName, types)
    ELSE LET deps == SortStrings(findTypeDependencies(typeName, types, order))
         IN EncodeDeps(deps, typeName, types, processing \cup {typeName}, order)
            \o Signature(typeName, types)

encodeType(typeName, types, order) ==
    encodeTypeWithContext(typeName, types, {}, order)

TypeInit ==
    /\ Idle
    /\ wc.pc = "api"
    /\ \E types \in TypeSets, typeName \in TypeNames :
         calc = [fn |-> "encodeType",
                 in |-> [types |-> types, typeName |-> typeName],
                 outs |-> <<>>]

\* one call of encodeType; the maps it ranges over yield their keys in some
\* order
EncodeCall ==
    /\ calc.fn = "encodeType"
    /\ Len(calc.outs) < MaxCalls
    /\ \E order \in MapOrders :
         calc' = [calc EXCEPT !.outs =
                    Append(@, encodeType(calc.in.typeName, calc.in.types, order))]
    /\ UNCHANGED session

TypeNext == EncodeCall

TypeSpec == TypeInit /\ [][TypeNext]_vars

\* the custom types named by the fields of type n
Refs(types, n) ==
    { FieldsOf(types, n)[i].Type : i \in 1..Len(FieldsOf(types, n)) }
      \cap DOMAIN types

\* the custom types reachable from n in one or more steps
RECURSIVE Grow(_, _)
Grow(types, S) ==
    LET S1 == S \cup UNION { Refs(types, m) : m \in S }
    IN IF S1 = S THEN S ELSE Grow(types, S1)

Reach(types, n) == Grow(types, Refs(types, n))

\* n is part of a reference cycle
OnCycle(types, n) == n \in Reach(types, n)

\* encoding n meets a reference cycle
MeetsCycle(types, n) ==
    OnCycle(types, n) \/ \E m \in Reach(types, n) : OnCycle(types, m)

\* number of places at which piece occurs in text
Occurrences(piece, text) ==
    Cardinality({ i \in 1..(Len(text) - Len(piece) + 1) :
                    SubSeq(text, i, i + Len(piece) - 1) = piece })

Encoded == calc.fn = "encodeType" /\ calc.outs # <<>>

\* the names of S in lexicographic order
Ascending(S) ==
    CHOOSE seq \in Perms(S) :
      \A i \in 1..Len(seq), j \in 1..Len(seq) : i < j => Less(seq[i], seq[j])

RECURSIVE Signatures(_, _)
Signatures(names, types) ==
    IF names = <<>> THEN <<>>
    ELSE Signature(names[1], types) \o Signatures(Tail(names), types)

\* C18: on a TypeSet with a reference cycle (A refers to B and B to A, or A
\* to itself) encodeType returns, repeated calls on the same TypeSet return
\* the same string, and a type that is already being encoded contributes
\* nothing at its nested occurrence: the signature of the type asked for is in
\* the result once.
C18_CyclesEncodeOnce ==
    (Encoded /\ MeetsCycle(calc.in.types, calc.in.typeName)) =>
        /\ \A i \in 1..Len(calc.outs), j \in 1..Len(calc.outs) :
             calc.outs[i] = calc.outs[j]
        /\ OnCycle(calc.in.types, calc.in.typeName) =>
             \A i \in 1..Len(calc.outs) :
               Occurrences(Signature(calc.in.typeName, calc.in.types),
                           calc.outs[i]) = 1

\* A(B x) and B(A x) encoded twice for A: B's signature, in which the nested
\* A left nothing, then A's
C18_Witness ==
    /\ Encoded
    /\ Len(calc.outs) = MaxCalls
    /\ calc.in.typeName = <<"A">>
    /\ DOMAIN calc.in.types = {<<"A">>, <<"B">>}
    /\ calc.in.types[<<"A">>] = << [Type |-> <<"B">>, Name |-> <<"x">>] >>
    /\ calc.in.types[<<"B">>] = << [Type |-> <<"A">>, Name |-> <<"x">>] >>
    /\ calc.outs[1] = <<"B", "(", "A", " ", "x", ")", "A", "(", "B", " ", "x", ")">>

\* C19: on a TypeSet without reference cycles the string encodeType returns
\* does not depend on the order in which the maps hand out their keys: every
\* call on the TypeSet returns the same string.
C19_KeyOrderIrrelevant ==
    (Encoded /\ ~MeetsCycle(calc.in.types, calc.in.typeName)) =>
        \A i \in 1..Len(calc.outs), j \in 1..Len(calc.outs) :
           calc.outs[i] = calc.outs[j]

\* a type with two custom types to encode, none of them on a cycle, encoded
\* as often as the bound allows
C19_Witness ==
    /\ Encoded
    /\ Len(calc.outs) = MaxCalls
    /\ ~MeetsCycle(calc.in.types, calc.in.typeName)
    /\ Cardinality(Reach(calc.in.types, calc.in.typeName)) = 2
    /\ Cardinality(Refs(calc.in.types, calc.in.typeName)) = 2

\* C20: the string returned for T starts with T's own signature
\* T(type name,...), fields in declaration order, and goes on with the
\* signatures of the custom types reachable from T, in lexicographic order of
\* their names; field types that are no keys of the TypeSet add nothing.
C20_OwnSignatureFirst ==
    Encoded =>
        \A i \in 1..Len(calc.outs) :
           calc.outs[i] =
             Signature(calc.in.typeName, calc.in.types)
               \o Signatures(Ascending(Reach(calc.in.types, calc.in.typeName)
                                         \ {calc.in.typeName}),
                             calc.in.types)

\* ------------------------------------------------------------------------
\* Value encoding and signing on their own: encodeValue, encodeMessageValues,
\* encodeDomainValues, Wallet.TypedDataSign and Wallet.Sign
\* ------------------------------------------------------------------------
\* number of fields of the primary type of a message
MaxMsgFields == 2

\* []byte(str): the bytes of the characters used in values
Ascii ==
    ("0" :> 48) @@ ("1" :> 49) @@ ("2" :> 50) @@ ("a" :> 97) @@ ("b" :> 98)
      @@ ("c" :> 99) @@ ("s" :> 115) @@ ("x" :> 120) @@ ("z" :> 122)

BytesOf(str) == [i \in 1..Len(str) |-> Ascii[str[i]]]

\* common.HexToAddress(str).Bytes(): the decoded bytes right-aligned in the
\* width of an address (one byte here, 20 in the code)
HexToAddress(str) ==
    LET digits == TrimPrefix(str, HexPrefix)
        even == IF Len(digits) % 2 = 1 THEN <<"0">> \o digits ELSE digits
        bytes == DecodeString(even).bytes
    IN IF bytes = <<>> THEN <<0>> ELSE <<bytes[Len(bytes)]>>

\* big.Int.Bytes() of a number below 256: big-endian, no leading zero
BigBytes(n) == IF n = 0 THEN <<>> ELSE <<n>>

\* declared type names
String == <<"s", "t", "r", "i", "n", "g">>
Uint256 == <<"u", "i", "n", "t", "2", "5", "6">>
AddressType == <<"a", "d", "d", "r", "e", "s", "s">>
StructB == <<"B">>
MsgFieldTypes == {String, Uint256, AddressType, StructB}

\* values as they arrive in map[string]interface{}: a Go string, a *big.Int,
\* a float64 (what encoding/json makes of a number) and a nested object
StrValue == [kind |-> "string", str |-> <<"0", "x", "0", "1">>, num |-> 0]
BigValue == [kind |-> "*big.Int", str |-> <<>>, num |-> 7]
FloatValue == [kind |-> "float64", str |-> <<>>, num |-> 7]
MapValue == [kind |-> "map", str |-> <<"s">>, num |-> 0]
Values == {StrValue, BigValue, FloatValue, MapValue}

NoBytes == <<>>

encodeValueLenient(value, typ) ==
    IF typ = String
    THEN [bytes |-> BytesOf(value.str), err |-> "nil"]
    ELSE IF typ = Uint256
    THEN [bytes |-> BigBytes(value.num), err |-> "nil"]
    ELSE IF typ = AddressType
    THEN [bytes |-> HexToAddress(value.str), err |-> "nil"]
    ELSE [bytes |-> NoBytes, err |-> "nil"]

encodeValue(value, typ) ==
    IF typ = String
    THEN IF value.kind # "string"
         THEN [bytes |-> NoBytes, err |-> "invalid string value"]
         ELSE [bytes |-> BytesOf(value.str), err |-> "nil"]
    ELSE IF typ = Uint256
    THEN IF value.kind # "*big.Int"
         THEN [bytes |-> NoBytes, err |-> "invalid uint256 value"]
         ELSE [bytes |-> BigBytes(value.num), err |-> "nil"]
    ELSE IF typ = AddressType
    THEN IF value.kind # "string"
         THEN [bytes |-> NoBytes, err |-> "invalid address value"]
         ELSE [bytes |-> HexToAddress(value.str), err |-> "nil"]
    ELSE [bytes |-> NoBytes, err |-> "unsupported type"]

\* val, ok := message[name]
NilValue == [kind |-> "nil", str |-> <<>>, num |-> 0]

LookupZero(kv, name) ==
    [val |-> IF name \in DOMAIN kv THEN kv[name] ELSE NilValue, ok |-> TRUE]

Lookup(kv, name) ==
    [val |-> IF name \in DOMAIN kv THEN kv[name] ELSE NilValue,
     ok |-> name \in DOMAIN kv]

\* the loop of encodeMessageValues over the fields handed to it
RECURSIVE EncodeFields(_, _, _)
EncodeFields(kv, fields, values) ==
    IF fields = <<>> THEN [bytes |-> values, err |-> "nil"]
    ELSE LET found == Lookup(kv, fields[1].Name)
             encoded == encodeValue(found.val, fields[1].Type)
         IN IF ~found.ok
            THEN [bytes |-> NoBytes, err |-> "missing value for field"]
            ELSE IF encoded.err # "nil"
            THEN [bytes |-> NoBytes, err |-> encoded.err]
            ELSE EncodeFields(kv, Tail(fields), values \o encoded.bytes)

\* a message is a Go map: its entries kv and the order in which a range over
\* it would hand out the keys

\* encodeMessageValues as it would be if it ranged over the message
encodeMessageValuesInMapOrder(message, types) ==
    LET declared(name) == \E i \in 1..Len(types) : types[i].Name = name
        fieldOf(name) == types[CHOOSE i \in 1..Len(types) : types[i].Name = name]
        keys == SelectSeq(message.layout, declared)
    IN EncodeFields(message.kv, [i \in 1..Len(keys) |-> fieldOf(keys[i])], NoBytes)

encodeMessageValues(message, types) ==
    EncodeFields(message.kv, types, NoBytes)

\* TypedDataDomain
DomainNames == {<<"a">>, <<"a", "b">>}
DomainVersions == {<<"c">>, <<"b", "c">>}
\* *big.Int: <<>> is the nil pointer
DomainChainIds == {<<>>, <<0>>, <<1>>}
DomainContracts == {<<>>, <<"0", "x", "0", "1">>}
DomainSalts == {<<>>, <<"0", "x", "0", "2">>, <<"z", "z">>}

Domains ==
    [Name : DomainNames, Version : DomainVersions, ChainId : DomainChainIds,
     VerifyingContract : DomainContracts, Salt : DomainSalts]

encodeDomainValues(domain) ==
    LET v1 == BytesOf(domain.Name) \o BytesOf(domain.Version)
        v2 == IF domain.ChainId # <<>>
              THEN v1 \o BigBytes(domain.ChainId[1]) ELSE v1
        v3 == IF domain.VerifyingContract # <<>>
              THEN v2 \o HexToAddress(domain.VerifyingContract) ELSE v2
        salt == DecodeString(TrimPrefix(domain.Salt, HexPrefix))
    IN IF domain.Salt = <<>> THEN [bytes |-> v3, err |-> "nil"]
       ELSE IF ~salt.ok THEN [bytes |-> NoBytes, err |-> "encoding/hex"]
       ELSE [bytes |-> v3 \o salt.bytes, err |-> "nil"]

PrivateKeys == {<<"0", "1">>, <<"z", "z">>}

\* crypto.Keccak256, taken to be free of collisions
Keccak256(preimage) == [keccak |-> preimage]

EIP712Domain == <<"E", "I", "P", "7", "1", "2", "D", "o", "m", "a", "i", "n">>

NoSignature == [signature |-> <<>>, signed |-> {}, digest |-> <<>>,
                values |-> NoBytes, panicked |-> FALSE]

\* Wallet.TypedDataSign; order is the order the range over the deps map of
\* findTypeDependencies yields its keys in
TypedDataSign(key, data, order) ==
    LET privateKey == HexToECDSA(key)
        domainHash == Keccak256(encodeType(EIP712Domain, data.Types, order))
        typeHash == Keccak256(encodeType(data.PrimaryType, data.Types, order))
        domainValues == encodeDomainValues(data.Domain)
        domainSeparator == Keccak256([hash |-> domainHash,
                                      rest |-> domainValues.bytes])
        messageValues == encodeMessageValues(data.Message,
                             FieldsOf(data.Types, data.PrimaryType))
        messageHash == Keccak256([hash |-> typeHash,
                                  rest |-> messageValues.bytes])
        hash == Keccak256(<<domainSeparator, messageHash>>)
    IN IF domainValues.err # "nil"
       THEN NoSignature @@ [err |-> domainValues.err]
       ELSE IF messageValues.err # "nil"
       THEN NoSignature @@ [err |-> messageValues.err]
       ELSE IF ~privateKey.ok
       THEN [signature |-> <<>>, signed |-> {}, digest |-> <<hash>>,
             values |-> messageValues.bytes, panicked |-> TRUE,
             err |-> "nil pointer dereference"]
       ELSE [signature |-> <<[key |-> privateKey.key, hash |-> hash]>>,
             signed |-> {hash}, digest |-> <<hash>>,
             values |-> messageValues.bytes, panicked |-> FALSE,
             err |-> "nil"]

\* Wallet.Sign
Sign(key, data) ==
    LET privateKey == HexToECDSA(key)
        hash == Keccak256([prefix |-> "\\x19Ethereum Signed Message:\\n",
                           len |-> Len(data), data |-> data])
    IN IF ~privateKey.ok
       THEN NoSignature @@ [err |-> "invalid private key"]
       ELSE [signature |-> <<[key |-> privateKey.key, hash |-> hash]>>,
             signed |-> {hash}, digest |-> <<hash>>, values |-> NoBytes,
             panicked |-> FALSE, err |-> "nil"]

\* inputs: the primary type A with its fields, B declared or not, a primary
\* type name with or without an entry, messages over the declared field names
MsgFieldLists ==
    { [i \in 1..Len(ts) |-> [Type |-> ts[i], Name |-> FieldName(i)]] :
        ts \in UNION { [1..n -> MsgFieldTypes] : n \in 0..MaxMsgFields } }

FieldsB == << [Type |-> String, Name |-> FieldName(1)] >>

MsgTypeSets ==
    { (<<"A">> :> fields) : fields \in MsgFieldLists }
      \cup { (<<"A">> :> fields) @@ (StructB :> FieldsB) : fields \in MsgFieldLists }

MsgNames == { FieldName(i) : i \in 1..MaxMsgFields }

MessageMaps == UNION { [K -> Values] : K \in SUBSET MsgNames }

SignDomains ==
    { d \in Domains : /\ d.Name = <<"a">> /\ d.Version = <<"c">>
                      /\ d.VerifyingContract = <<>> /\ d.ChainId = <<>>
                      /\ d.Salt # <<"0", "x", "0", "2">> }

\* the wallets and requests SendTransactionFromRequest is called with: a from
\* address is written from its bytes, in lower or upper case hex digits,
\* behind "0x", "0X" or nothing
TxKeys == WalletKeys \cup {<<"z", "z">>}

LowerToUpper ==
    ("a" :> "A") @@ ("b" :> "B") @@ ("c" :> "C") @@ ("d" :> "D")
      @@ ("e" :> "E") @@ ("f" :> "F")

UpperString(str) ==
    [i \in 1..Len(str) |->
       IF str[i] \in DOMAIN LowerToUpper THEN LowerToUpper[str[i]] ELSE str[i]]

FromAddresses ==
    [bytes : Addresses \cup {<<>>}, upper : BOOLEAN,
     prefix : {<<>>, <<"0", "x">>, <<"0", "X">>}]

FromText(from) ==
    from.prefix \o (IF from.upper THEN UpperString(HexOfBytes(from.bytes))
                               ELSE HexOfBytes(from.bytes))

TxNonces == {"", "0x1", "zz"}

TxGasLimits == {"", "zz"}

TxData == {<<>>, <<"0", "x", "0", "1">>, <<"z", "z">>}

SignInit ==
    /\ Idle
    /\ wc.pc = "api"
    /\ \/ \E kv \in MessageMaps, fields \in MsgFieldLists :
            calc = [fn |-> "encodeMessageValues",
                    in |-> [kv |-> kv, types |-> fields], outs |-> <<>>]
       \/ \E key \in PrivateKeys, types \in MsgTypeSets,
             primary \in {<<"A">>, <<"C">>}, domain \in SignDomains,
             kv \in MessageMaps :
            calc = [fn |-> "TypedDataSign",
                    in |-> [key |-> key,
                            data |-> [Types |-> types, PrimaryType |-> primary,
                                      Domain |-> domain, Message |-> kv]],
                    outs |-> <<>>]
       \/ \E key \in PrivateKeys, data \in {<<>>, <<1>>, <<1, 2>>} :
            calc = [fn |-> "Sign", in |-> [key |-> key, data |-> data],
                    outs |-> <<>>]
       \/ \E d1 \in Domains, d2 \in Domains :
            calc = [fn |-> "encodeDomainValues", in |-> <<d1, d2>>,
                    outs |-> <<>>]
       \/ \E key \in TxKeys, from \in FromAddresses, nonce \in TxNonces,
             gas \in TxGasLimits, data \in TxData :
            calc = [fn |-> "SendTransactionFromRequest",
                    in |-> [key |-> key, from |-> from,
                            req |-> [From |-> FromText(from), Nonce |-> nonce,
                                     GasLimit |-> gas, Data |-> data]],
                    outs |-> <<>>]

\* one call of encodeMessageValues on a map with the given entries
MessageValuesCall ==
    /\ calc.fn = "encodeMessageValues"
    /\ Len(calc.outs) < MaxCalls
    /\ \E layout \in Perms(DOMAIN calc.in.kv) :
         calc' = [calc EXCEPT !.outs =
                    Append(@, encodeMessageValues(
                                [kv |-> calc.in.kv, layout |-> layout],
                                calc.in.types))]
    /\ UNCHANGED session

\* one call of TypedDataSign
TypedDataSignCall ==
    /\ calc.fn = "TypedDataSign"
    /\ Len(calc.outs) < MaxCalls
    /\ \E layout \in Perms(DOMAIN calc.in.data.Message), order \in MapOrders :
         calc' = [calc EXCEPT !.outs =
                    Append(@, TypedDataSign(calc.in.key,
                                [calc.in.data EXCEPT !.Message =
                                   [kv |-> @, layout |-> layout]],
                                order))]
    /\ UNCHANGED session

\* one call of Sign
SignCall ==
    /\ calc.fn = "Sign"
    /\ Len(calc.outs) < MaxCalls
    /\ calc' = [calc EXCEPT !.outs = Append(@, Sign(calc.in.key, calc.in.data))]
    /\ UNCHANGED session

\* encodeDomainValues on one descriptor and then on the other
DomainValuesCall ==
    /\ calc.fn = "encodeDomainValues"
    /\ Len(calc.outs) < Len(calc.in)
    /\ calc' = [calc EXCEPT !.outs =
                  Append(@, encodeDomainValues(calc.in[Len(calc.outs) + 1]))]
    /\ UNCHANGED session

\* one call of SendTransactionFromRequest, the RPC node answering as it will
SendTransactionCall ==
    /\ calc.fn = "SendTransactionFromRequest"
    /\ Len(calc.outs) < MaxCalls
    /\ \E rpc \in RpcOutcomes :
         calc' = [calc EXCEPT !.outs =
                    Append(@, SendTransactionFromRequest(
                                [Address |-> <<>>, PrivateKey |-> calc.in.key],
                                calc.in.req, rpc))]
    /\ UNCHANGED session

SignNext ==
    \/ MessageValuesCall
    \/ TypedDataSignCall
    \/ SignCall
    \/ DomainValuesCall
    \/ SendTransactionCall

SignSpec == SignInit /\ [][SignNext]_vars

\* the type names encodeValue has a case for, and the Go type each asks of
\* the value
SupportedTypes == {String, Uint256, AddressType}

ShapeOf(typ) == IF typ = Uint256 THEN "*big.Int" ELSE "string"

MismatchErrors ==
    {"invalid string value", "invalid uint256 value", "invalid address value"}

Missing(kv, field) == field.Name \notin DOMAIN kv

Unsupported(field) == field.Type \notin SupportedTypes

Mismatched(kv, field) ==
    /\ ~Missing(kv, field)
    /\ ~Unsupported(field)
    /\ kv[field.Name].kind # ShapeOf(field.Type)

\* the first field, in declared order, that cannot be encoded; 0 if all can
FirstBad(kv, fields) ==
    LET bad == { i \in 1..Len(fields) :
                   \/ Missing(kv, fields[i])
                   \/ Unsupported(fields[i])
                   \/ Mismatched(kv, fields[i]) }
    IN IF bad = {} THEN 0 ELSE CHOOSE i \in bad : \A j \in bad : i <= j

\* the message entries and the field list of the call under evaluation
CalcKv == IF calc.fn = "TypedDataSign" THEN calc.in.data.Message ELSE calc.in.kv

CalcFields ==
    IF calc.fn = "TypedDataSign"
    THEN FieldsOf(calc.in.data.Types, calc.in.data.PrimaryType)
    ELSE calc.in.types

SomeMissing == \E i \in 1..Len(CalcFields) : Missing(CalcKv, CalcFields[i])

FirstBadIsMissing ==
    /\ FirstBad(CalcKv, CalcFields) > 0
    /\ Missing(CalcKv, CalcFields[FirstBad(CalcKv, CalcFields)])

\* C21 as stated: whenever a declared field of the primary type has no entry
\* in the message, encodeMessageValues returns the missing-field error and no
\* bytes, and TypedDataSign returns that error, no signature, and signs
\* nothing.
C21_MissingFieldError ==
    (calc.fn \in {"encodeMessageValues", "TypedDataSign"} /\ SomeMissing) =>
        \A i \in 1..Len(calc.outs) :
           /\ calc.outs[i].err = "missing value for field"
           /\ calc.fn = "encodeMessageValues" => calc.outs[i].bytes = NoBytes
           /\ calc.fn = "TypedDataSign" =>
                 /\ calc.outs[i].signature = <<>>
                 /\ calc.outs[i].signed = {}

\* C21 amended: whenever a declared field of the primary type has no entry in
\* the message, encodeMessageValues returns an error and no bytes, and
\* TypedDataSign returns an error, no signature, and signs nothing.  The error
\* is the missing-field error when no field declared before the missing one
\* fails to encode and, for TypedDataSign, the domain encodes; otherwise it is
\* the error of the step that failed first.
C21_MissingFieldFails ==
    (calc.fn \in {"encodeMessageValues", "TypedDataSign"} /\ SomeMissing) =>
        \A i \in 1..Len(calc.outs) :
           /\ calc.outs[i].err # "nil"
           /\ calc.fn = "encodeMessageValues" =>
                 /\ calc.outs[i].bytes = NoBytes
                 /\ FirstBadIsMissing =>
                       calc.outs[i].err = "missing value for field"
           /\ calc.fn = "TypedDataSign" =>
                 /\ calc.outs[i].signature = <<>>
                 /\ calc.outs[i].signed = {}
                 /\ ~calc.outs[i].panicked
                 /\ (FirstBadIsMissing
                       /\ encodeDomainValues(calc.in.data.Domain).err = "nil") =>
                       calc.outs[i].err = "missing value for field"

\* TypedDataSign with a usable key on a message that lacks the second of two
\* declared fields, the first one encodable: the missing-field error
C21_Witness ==
    /\ calc.fn = "TypedDataSign"
    /\ calc.outs # <<>>
    /\ HexToECDSA(calc.in.key).ok
    /\ calc.in.data.PrimaryType = <<"A">>
    /\ Len(CalcFields) = 2
    /\ FirstBad(CalcKv, CalcFields) = 2
    /\ Missing(CalcKv, CalcFields[2])
    /\ calc.outs[1].err = "missing value for field"
    /\ calc.outs[1].signed = {}

\* C22: a field whose declared type is another type of the TypeSet, given a
\* nested object as its value, is encoded as a nested struct; it is not
\* rejected as an unsupported type.
C22_NestedStructEncoded ==
    calc.fn = "TypedDataSign" =>
        \A i \in 1..Len(calc.outs) :
           LET bad == FirstBad(CalcKv, CalcFields)
           IN (/\ bad > 0
               /\ CalcFields[bad].Type \in DOMAIN calc.in.data.Types
               /\ ~Missing(CalcKv, CalcFields[bad])
               /\ CalcKv[CalcFields[bad].Name] = MapValue) =>
                 calc.outs[i].err # "unsupported type"

\* C23: for the first field encodeMessageValues cannot encode, a type name
\* without a case in encodeValue gives the unsupported-type error and a value
\* of the wrong Go type for a supported type name gives one of the
\* invalid-value errors, which differ from the unsupported-type and the
\* missing-field error; either way no bytes are returned for the message.
C23_UnsupportedAndMismatch ==
    calc.fn = "encodeMessageValues" =>
        \A i \in 1..Len(calc.outs) :
           LET bad == FirstBad(calc.in.kv, calc.in.types)
               out == calc.outs[i]
           IN /\ bad = 0 => out.err = "nil"
              /\ bad > 0 =>
                   /\ out.bytes = NoBytes
                   /\ (~Missing(calc.in.kv, calc.in.types[bad])
                         /\ Unsupported(calc.in.types[bad])) =>
                         out.err = "unsupported type"
                   /\ Mismatched(calc.in.kv, calc.in.types[bad]) =>
                         /\ out.err \in MismatchErrors
                         /\ out.err \notin {"unsupported type",
                                            "missing value for field", "nil"}

\* a uint256 field given a float64 after a field that encodes
C23_Witness ==
    /\ calc.fn = "encodeMessageValues"
    /\ calc.outs # <<>>
    /\ Len(calc.in.types) = 2
    /\ FirstBad(calc.in.kv, calc.in.types) = 2
    /\ calc.in.types[2].Type = Uint256
    /\ Mismatched(calc.in.kv, calc.in.types[2])
    /\ calc.in.kv[calc.in.types[2].Name] = FloatValue
    /\ calc.outs[1].err = "invalid uint256 value"

\* C24: the encoded message bytes and the digest are the same for every call
\* on the same TypeSet, primary type, domain and message entries, whatever
\* order the message map holds its entries in.
C24_DigestOfContentOnly ==
    calc.fn \in {"encodeMessageValues", "TypedDataSign"} =>
        \A i \in 1..Len(calc.outs), j \in 1..Len(calc.outs) :
           calc.outs[i] = calc.outs[j]

\* two calls of TypedDataSign on a message of two entries whose bytes differ,
\* both giving a digest
C24_Witness ==
    /\ calc.fn = "TypedDataSign"
    /\ Len(calc.outs) = MaxCalls
    /\ Cardinality(DOMAIN calc.in.data.Message) = 2
    /\ Len(CalcFields) = 2
    /\ CalcFields[1].Type = String
    /\ CalcFields[2].Type = AddressType
    /\ calc.outs[1].digest # <<>>
    /\ calc.outs[1].values = <<48, 120, 48, 49, 1>>

\* C25: a signing operation whose key material does not decode returns the
\* invalid-private-key error at once: nothing is hashed or signed, and it does
\* not panic.
C25_KeyFailureAborts ==
    (calc.fn \in {"TypedDataSign", "Sign"} /\ ~HexToECDSA(calc.in.key).ok) =>
        \A i \in 1..Len(calc.outs) :
           /\ calc.outs[i].err = "invalid private key"
           /\ calc.outs[i].digest = <<>>
           /\ calc.outs[i].signed = {}
           /\ ~calc.outs[i].panicked

\* C26: in the session flow the subscribe envelope is the first one sent, a
\* pairing request is received only after it, the approval envelope is sent
\* only after a pairing request was received without error, the dispatch loop
\* receives only after the approval was sent, and no handler is invoked
\* before the approval send returned without error.
C26_FlowOrder ==
    wc.pc # "api" =>
        /\ sent # <<>> => sent[1].env.type = "sub"
        /\ results.hsr \notin {"none", "running"} =>
              /\ sent # <<>>
              /\ sent[1].ok
        /\ \A i \in 1..Len(sent) :
              sent[i].env.type = "pub" =>
                 /\ i = 2
                 /\ results.hsr = "request"
                 /\ results.request.err = "nil"
        /\ received # <<>> =>
              /\ Len(sent) = 2
              /\ sent[2].env.type = "pub"
              /\ sent[2].ok
        /\ invoked # <<>> =>
              /\ results.approve.err = "nil"
              /\ Len(sent) = 2
              /\ sent[2].ok

\* the flow in its dispatch loop with a handler invoked
C26_Witness ==
    /\ wc.pc = "loop"
    /\ invoked # <<>>
    /\ Len(sent) = 2
    /\ results.hsr = "request"

\* C27: when the key holder does not approve, the flow sends no approval,
\* starts no dispatch loop, invokes no handler, returns an error and closes
\* the connection; and on every other way out of the flow a connection that
\* was opened has been closed.
C27_RejectionAndCleanup ==
    wc.pc \in {"returned", "panicked"} =>
        /\ wc.result = "connection rejected by user" =>
              /\ \A i \in 1..Len(sent) : sent[i].env.type # "pub"
              /\ results.loop = "none"
              /\ invoked = <<>>
              /\ client.conn = "closed"
        /\ results.connectObj.conn # "nil" => wc.closed

\* C28: on a TypeSet without reference cycles the string returned for T holds
\* the signature of T and of every custom type reachable from T exactly once,
\* also when a type is reachable along two paths.
C28_EachSignatureOnce ==
    (Encoded /\ ~MeetsCycle(calc.in.types, calc.in.typeName)) =>
        \A i \in 1..Len(calc.outs) :
           \A n \in Reach(calc.in.types, calc.in.typeName) \cup {calc.in.typeName} :
              Occurrences(Signature(n, calc.in.types), calc.outs[i]) = 1

\* C29: two domain descriptors that differ in name, version, chain id,
\* verifying contract or salt never encode to the same bytes.
C29_DomainsSeparate ==
    (/\ calc.fn = "encodeDomainValues"
     /\ Len(calc.outs) = 2
     /\ calc.in[1] # calc.in[2]
     /\ calc.outs[1].err = "nil"
     /\ calc.outs[2].err = "nil") =>
        calc.outs[1].bytes # calc.outs[2].bytes

\* C30: TypedDataSign on a message whose primary type is not a key of the
\* TypeSet returns an error and no signature, and signs nothing.
C30_UnknownPrimaryTypeRejected ==
    (calc.fn = "TypedDataSign"
       /\ calc.in.data.PrimaryType \notin DOMAIN calc.in.data.Types) =>
        \A i \in 1..Len(calc.outs) :
           /\ calc.outs[i].err # "nil"
           /\ calc.outs[i].signature = <<>>
           /\ calc.outs[i].signed = {}

\* ---------------------------------------------------------------------------
\* C31

\* the request's from address is the address of the wallet's key, written as
\* "0x" and its hex digits in either case
FromIsOwnAddress ==
    /\ HexToECDSA(calc.in.key).ok
    /\ calc.in.from.bytes = PubkeyToAddress(HexToECDSA(calc.in.key).key)
    /\ calc.in.from.prefix # <<>>

\* C31: SendTransactionFromRequest signs and broadcasts a transaction only
\* when the request's from address equals, in any letter case, the address
\* derived from the wallet's own key; for a request that names any other
\* address it returns an error, without a hash, and nothing is signed or
\* broadcast
C31_SignsOnlyForOwnAddress ==
    calc.fn = "SendTransactionFromRequest" =>
      \A i \in 1..Len(calc.outs) :
        LET out == calc.outs[i]
        IN /\ out.broadcast \subseteq out.signed
           /\ out.signed # {} => FromIsOwnAddress
           /\ out.err = "nil" => FromIsOwnAddress /\ out.signed # {}
                                   /\ out.broadcast = out.signed
           /\ ~FromIsOwnAddress =>
                /\ out.err # "nil"
                /\ ~out.panicked
                /\ out.hash = <<>>
                /\ out.signed = {}
                /\ out.broadcast = {}

\* a transaction was signed and broadcast for a from address written in
\* upper case, and an earlier or later call with the other outcome of the RPC
\* node is in the same run
C31_Witness ==
    /\ calc.fn = "SendTransactionFromRequest"
    /\ calc.in.from.upper
    /\ calc.in.from.bytes = <<171>>
    /\ calc.in.from.prefix = <<"0", "X">>
    /\ Len(calc.outs) = MaxCalls
    /\ calc.outs[1].err = "nil"
    /\ calc.outs[1].broadcast # {}
    /\ calc.outs[1].hash # <<>>

====
